---------------------------- MODULE Spec2Model ----------------------------
(***************************************************************************)
(* pybogglesolver: the trie (trie.py), the adjacency table, the dictionary *)
(* filter and the queue-driven search of BoggleSolver (bogglesolver.py).   *)
(*                                                                         *)
(* A Python string is a sequence of one-character strings.  A Trie object  *)
(* is a cell of a heap: the heap is a sequence of nodes, node 1 is the     *)
(* root, 0 is None, and the empty heap is "self.trie is None".  Cell       *)
(* indices are 0-based as in the source.                                   *)
(***************************************************************************)
EXTENDS Integers, Sequences, FiniteSets, TLC

VARIABLES
    xlen, ylen, board_size, min_letters, max_letters, adjacency, trie,
    passed,
    pc, grid, board, init_sq, q, words, emits, result,
    inserted,
    xlim, ylim, cy, cx, adj_list

engine   == <<xlen, ylen, board_size, min_letters, max_letters, adjacency, trie>>
locals   == <<board, init_sq, q, words, emits>>
trievars == <<inserted>>
adjvars  == <<xlim, ylim, cy, cx, adj_list>>
vars     == <<xlen, ylen, board_size, min_letters, max_letters, adjacency, trie,
              passed, pc, grid, board, init_sq, q, words, emits, result,
              inserted, xlim, ylim, cy, cx, adj_list>>

---------------------------------------------------------------------------
(* Bounds and input domains *)

\* Longest words file, in lines.
MaxLines == 2
\* Trie.insert taken alone: number of insert calls, and longest word.
MaxInserts == 3
MaxWordLen == 2
\* _create_adjacency_matrix taken alone: largest xlim and ylim.
MaxDim == 5

\* The slots of a node that the inputs can reach (a subset of a-z).
Letters == {"a", "q", "t", "u"}
\* Letters a grid is drawn from.
GridLetters == {"a", "q", "t"}
\* Letters the words of the stand-alone trie are drawn from.
TrieLetters == {"a", "t"}
\* Characters for which str.isupper() is true.
Upper == {"A"}
\* The arguments the engine is constructed with: <<xlen, ylen, max_letters,
\* min_letters>>, 0 standing for max_letters = None (3 is the default of
\* min_letters).
EngineArgs ==
    { <<2, 2, 0, 2>>,
      <<2, 2, 3, 3>>,
      <<3, 2, 0, 3>>,
      <<3, 2, 3, 2>> }

\* Lines a words file is made of.
WordLines ==
    { <<"a", "t", "\n">>,
      <<"t", "a", "t", "\n">>,
      <<"a", "t", "a", "t", "\n">>,
      <<"q", "u", "\n">>,
      <<"q", "u", "a", "\n">>,
      <<"q", "u", "a", "t", "\n">>,
      <<"q", "a", "t", "\n">>,
      <<"A", "t", "\n">>,
      <<"\n">> }

WordsFiles == UNION { [1..n -> WordLines] : n \in 0..MaxLines }

Grids(n) == [1..n -> GridLetters]

\* Grids of a wrong length (their letters are never read): every length from 0
\* to n + 1 but n.
BadGrids(n) == { [i \in 1..k |-> "a"] : k \in (0..(n + 1)) \ {n} }

\* The grids handed to solve.
GridInputs(n) == Grids(n) \cup BadGrids(n)

---------------------------------------------------------------------------
(* Sequences *)

Range(s) == { s[i] : i \in 1..Len(s) }

IsPrefix(s, t) == Len(s) <= Len(t) /\ SubSeq(t, 1, Len(s)) = s

NoRepeats(s) == \A i, j \in 1..Len(s) : s[i] = s[j] => i = j

---------------------------------------------------------------------------
(* trie.py *)

None == 0

\* Trie.__init__
NewNode == [children |-> [l \in Letters |-> None], is_word |-> FALSE]

TrieNone == <<>>

root == 1

\* Trie.get_child, on node n of heap h
get_child(h, n, l) == h[n].children[l]

\* Trie.has_children
has_children(h, n) == \E l \in Letters : h[n].children[l] # None

\* The last statement of Trie.insert: cur._is_word = True
MarkWord(h, cur) == [h EXCEPT ![cur].is_word = TRUE]

\* Trie.insert with "cur._is_word = True" moved into the branch that makes a
\* new node: a word that ends on a node already there is not marked.
RECURSIVE InsertFromMarkNew(_, _, _, _, _)
InsertFromMarkNew(h, cur, word, i, fresh) ==
    IF i > Len(word)
    THEN IF fresh THEN [h EXCEPT ![cur].is_word = TRUE] ELSE h
    ELSE LET next == h[cur].children[word[i]]
         IN  IF next = 0
             THEN LET new_node == Len(h) + 1
                      h2 == Append([h EXCEPT ![cur].children[word[i]] = new_node],
                                   [children |-> [l \in Letters |-> 0],
                                    is_word |-> FALSE])
                  IN  InsertFromMarkNew(h2, new_node, word, i + 1, TRUE)
             ELSE InsertFromMarkNew(h, next, word, i + 1, FALSE)

InsertMarkNew(h, cur, word, i) == InsertFromMarkNew(h, cur, word, i, FALSE)

\* The loop of Trie.insert from letter i of word on, standing on node cur.
RECURSIVE InsertFrom(_, _, _, _)
InsertFrom(h, cur, word, i) ==
    IF i > Len(word)
    THEN MarkWord(h, cur)
    ELSE LET next == get_child(h, cur, word[i])
         IN  IF next = None
             THEN LET new_node == Len(h) + 1
                      h2 == Append([h EXCEPT ![cur].children[word[i]] = new_node],
                                   NewNode)
                  IN  InsertFrom(h2, new_node, word, i + 1)
             ELSE InsertFrom(h, next, word, i + 1)

\* Trie.insert on the root
insert(h, word) == InsertFrom(h, root, word, 1)

\* get_child letter by letter from the root along s: the node reached, or
\* None as soon as a child is missing.
RECURSIVE WalkFrom(_, _, _, _)
WalkFrom(h, n, s, i) ==
    IF n = None \/ i > Len(s)
    THEN n
    ELSE WalkFrom(h, get_child(h, n, s[i]), s, i + 1)

Walk(h, s) == WalkFrom(h, root, s, 1)

---------------------------------------------------------------------------
(* BoggleSolver._create_adjacency_matrix *)

\* One step of the body: the cell at (cell_x, cell_y) when the guard holds.
Look(ok, cell_x, cell_y, xl) == IF ok THEN <<cell_y * xl + cell_x>> ELSE <<>>

\* The body with the test "cell_x < xlim" left out of "look lower right".
AdjOfNoRightCheck(x, y, xl, yl) ==
    (IF y - 1 >= 0
     THEN Look(x - 1 >= 0, x - 1, y - 1, xl)
          \o Look(TRUE, x, y - 1, xl)
          \o Look(x + 1 < xl, x + 1, y - 1, xl)
     ELSE <<>>)
    \o Look(x - 1 >= 0, x - 1, y, xl)
    \o Look(x + 1 < xl, x + 1, y, xl)
    \o (IF y + 1 < yl
        THEN Look(x - 1 >= 0, x - 1, y + 1, xl)
             \o Look(TRUE, x, y + 1, xl)
             \o Look(TRUE, x + 1, y + 1, xl)
        ELSE <<>>)

\* The list adj built by one iteration of the loops, for the cell (x, y).
AdjOf(x, y, xl, yl) ==
    (IF y - 1 >= 0
     THEN Look(x - 1 >= 0, x - 1, y - 1, xl)
          \o Look(TRUE, x, y - 1, xl)
          \o Look(x + 1 < xl, x + 1, y - 1, xl)
     ELSE <<>>)
    \o Look(x - 1 >= 0, x - 1, y, xl)
    \o Look(x + 1 < xl, x + 1, y, xl)
    \o (IF y + 1 < yl
        THEN Look(x - 1 >= 0, x - 1, y + 1, xl)
             \o Look(TRUE, x, y + 1, xl)
             \o Look(x + 1 < xl, x + 1, y + 1, xl)
        ELSE <<>>)

\* The table the two loops return.
CreateAdjacencyMatrix(xl, yl) ==
    [c \in 0..(xl * yl - 1) |-> AdjOf(c % xl, c \div xl, xl, yl)]

---------------------------------------------------------------------------
(* BoggleSolver._create_dict_trie *)

\* word = word[:-1]
Chop(line) == SubSeq(line, 1, Len(line) - 1)

\* The length tests made after the "u" of a q-word is removed.
AcceptedStoredLen(word, minl, maxl) ==
    /\ Len(word) >= 2
    /\ word[1] \notin Upper
    /\ (word[1] = "q" => word[2] = "u")
    /\ LET n == IF word[1] = "q" THEN Len(word) - 1 ELSE Len(word)
       IN  ~(n > maxl \/ n < minl)

\* The three "continue" tests: TRUE when the word goes on to be inserted.
Accepted(word, minl, maxl) ==
    /\ ~(Len(word) > maxl \/ Len(word) < minl)
    /\ word[1] \notin Upper
    /\ (word[1] = "q" => word[2] = "u")

\* The word inserted as it is read.
StoredVerbatim(word) == word

\* word = 'q' + word[2:] for a q-word; what root.insert is called with.
Stored(word) == IF word[1] = "q" THEN <<"q">> \o SubSeq(word, 3, Len(word)) ELSE word

\* The loop over the lines of the file, from line i on.
RECURSIVE DictTrieFrom(_, _, _, _, _)
DictTrieFrom(h, file, i, minl, maxl) ==
    IF i > Len(file)
    THEN h
    ELSE LET word == Chop(file[i])
         IN  IF Accepted(word, minl, maxl)
             THEN DictTrieFrom(insert(h, Stored(word)), file, i + 1, minl, maxl)
             ELSE DictTrieFrom(h, file, i + 1, minl, maxl)

CreateDictTrie(file, minl, maxl) == DictTrieFrom(<<NewNode>>, file, 1, minl, maxl)

\* The words of the file for which root.insert is reached.
PassedWords(file, minl, maxl) ==
    { Chop(file[i]) : i \in { j \in 1..Len(file) : Accepted(Chop(file[j]), minl, maxl) } }

---------------------------------------------------------------------------
(* Return values.  kind is "-" while no call has returned; the kind       *)
(* "AttributeError" is an exception that leaves solve.  pc is "idle"      *)
(* between calls, "for" and "while" inside solve, and "done" when a call  *)
(* has handed its result to the caller.                                   *)

Ret(kind, val) == [kind |-> kind, val |-> val]

Pending == Ret("-", {})

\* grid while no solve call is running or has just returned.
NoGrid == <<"-">>

---------------------------------------------------------------------------
(* BoggleSolver.__init__ *)

\* The asserts of the constructor, max_letters already defaulted.
ConstructorAsserts(xl, yl, maxl, minl) ==
    /\ xl > 1
    /\ yl > 1
    /\ minl > 1
    /\ maxl <= xl * yl
    /\ minl <= maxl

\* max_letters = board_size when the argument is None
DefaultMax(maxarg, size) == IF maxarg = 0 THEN size ELSE maxarg

Construct(xl, yl, maxarg, minl) ==
    /\ ConstructorAsserts(xl, yl, DefaultMax(maxarg, xl * yl), minl)
    /\ xlen = xl
    /\ ylen = yl
    /\ board_size = xl * yl
    /\ min_letters = minl
    /\ max_letters = DefaultMax(maxarg, xl * yl)
    /\ adjacency = CreateAdjacencyMatrix(xl, yl)
    /\ trie = TrieNone

---------------------------------------------------------------------------
(* BoggleSolver.load_dictionary *)

\* The file is read: self.trie is replaced, True is returned.
LoadDictionary(file) ==
    /\ pc = "idle"
    /\ trie' = CreateDictTrie(file, min_letters, max_letters)
    /\ passed' = PassedWords(file, min_letters, max_letters)
    /\ result' = Ret("True", {})
    /\ pc' = "done"
    /\ UNCHANGED <<xlen, ylen, board_size, min_letters, max_letters, adjacency,
                   grid, locals, trievars, adjvars>>

\* open() raises IOError: False is returned, self.trie is left alone.
LoadDictionaryIOError ==
    /\ pc = "idle"
    /\ result' = Ret("False", {})
    /\ pc' = "done"
    /\ UNCHANGED <<engine, passed, grid, locals, trievars, adjvars>>

---------------------------------------------------------------------------
(* BoggleSolver.solve *)

\* board[sq]
BoardAt(b, sq) == b[sq + 1]

\* The test against the first cell of the path alone.
UnseenFirstOnly(cur_sq, seen) == cur_sq # seen[1]

\* "if cur_sq in seen: continue": TRUE when the cell goes on to be looked up.
Unseen(cur_sq, seen) == cur_sq \notin Range(seen)

\* The word added for the prefix s of a word node.
FoundWord(s) == IF s[1] = "q" THEN <<"q", "u">> \o Tail(s) ELSE s

\* A work-queue entry (parent_sq, prefix, pnode, seen).
Entry(sq, prefix, node, seen) ==
    [sq |-> sq, prefix |-> prefix, node |-> node, seen |-> seen]

\* q.append((init_sq, c, trie.get_child(c), [init_sq]))
SeedEntry(h, b, sq) ==
    Entry(sq, <<BoardAt(b, sq)>>, get_child(h, root, BoardAt(b, sq)), <<sq>>)

\* The entries the inner for loop appends for the popped entry e, from the
\* i-th neighbour of e.sq on, in order.
RECURSIVE ExpandFrom(_, _, _, _, _)
ExpandFrom(h, b, adjs, e, i) ==
    IF i > Len(adjs[e.sq])
    THEN <<>>
    ELSE LET cur_sq == adjs[e.sq][i]
             rest == ExpandFrom(h, b, adjs, e, i + 1)
         IN  IF ~Unseen(cur_sq, e.seen)
             THEN rest
             ELSE LET c == BoardAt(b, cur_sq)
                      cur_node == get_child(h, e.node, c)
                  IN  IF cur_node = None
                      THEN rest
                      ELSE <<Entry(cur_sq, Append(e.prefix, c), cur_node,
                                   Append(e.seen, cur_sq))>> \o rest

Expand(h, b, adjs, e) == ExpandFrom(h, b, adjs, e, 1)

\* The appended entries that stand on a word node.
WordEntries(h, es) == { es[i] : i \in { j \in 1..Len(es) : h[es[j].node].is_word } }

\* The back entry read, while the front entry is the one removed.
QFrontReadsBack(qu) == qu[Len(qu)]

\* q.pop(0): the entry taken, and what is left.
QFront(qu) == Head(qu)
QRest(qu) == Tail(qu)

\* The length test with ">" for "!=".
InvalidBoardOnlyLonger(g, size) == Len(g) > size

\* len(grid) != self.board_size
InvalidBoard(g, size) == Len(g) # size

\* The two early returns, and the set-up of the search.
Solve(g) ==
    /\ pc = "idle"
    /\ grid' = g
    /\ IF trie = TrieNone \/ InvalidBoard(g, board_size)
       THEN /\ result' = Ret("None", {})
            /\ pc' = "done"
            /\ UNCHANGED locals
       ELSE /\ result' = Pending
            /\ pc' = "for"
            /\ board' = g
            /\ init_sq' = 0
            /\ q' = <<>>
            /\ words' = {}
            /\ emits' = {}
    /\ UNCHANGED <<engine, passed, trievars, adjvars>>

\* One turn of "for init_sq in xrange(len(adjs))": the seed is appended.
SolveSeed ==
    /\ pc = "for"
    /\ init_sq < board_size
    /\ q' = Append(q, SeedEntry(trie, board, init_sq))
    /\ pc' = "while"
    /\ UNCHANGED <<engine, passed, grid, board, init_sq, words, emits, result,
                   trievars, adjvars>>

\* One turn of "while q": an entry is popped and its neighbours are tried.
\* pnode.get_child raises AttributeError when pnode is None.
SolvePop ==
    /\ pc = "while"
    /\ q # <<>>
    /\ LET e == QFront(q)
       IN  IF e.node = None
           THEN /\ result' = Ret("AttributeError", {})
                /\ pc' = "done"
                /\ q' = QRest(q)
                /\ UNCHANGED <<words, emits, init_sq>>
           ELSE LET es == Expand(trie, board, adjacency, e)
                    found == WordEntries(trie, es)
                IN  /\ q' = QRest(q) \o es
                    /\ words' = words \cup { FoundWord(x.prefix) : x \in found }
                    /\ emits' = emits \cup
                                { <<x.seen, FoundWord(x.prefix)>> : x \in found }
                    /\ IF q' = <<>>
                       THEN pc' = "for" /\ init_sq' = init_sq + 1
                       ELSE pc' = "while" /\ init_sq' = init_sq
                    /\ result' = result
    /\ UNCHANGED <<engine, passed, grid, board, trievars, adjvars>>

\* The for loop is over: "return words".
SolveReturn ==
    /\ pc = "for"
    /\ init_sq = board_size
    /\ result' = Ret("set", words)
    /\ pc' = "done"
    /\ UNCHANGED <<engine, passed, grid, locals, trievars, adjvars>>

---------------------------------------------------------------------------
(* boggle.py, run_board: the caller takes what the call returned and goes *)
(* round its loop; the frame of the call is gone.                         *)

Resume ==
    /\ pc = "done"
    /\ pc' = "idle"
    /\ result' = Pending
    /\ grid' = NoGrid
    /\ board' = <<>>
    /\ init_sq' = 0
    /\ q' = <<>>
    /\ words' = {}
    /\ emits' = {}
    /\ UNCHANGED <<engine, passed, trievars, adjvars>>

---------------------------------------------------------------------------
(* The engine: constructed, then load_dictionary and solve called in any   *)
(* order.                                                                  *)

\* No call is running and none has returned.
NoCall ==
    /\ passed = {}
    /\ pc = "idle"
    /\ grid = NoGrid
    /\ board = <<>>
    /\ init_sq = 0
    /\ q = <<>>
    /\ words = {}
    /\ emits = {}
    /\ result = Pending

\* No stand-alone trie is being filled.
NoTrieRun == inserted = <<>>

\* No stand-alone adjacency table is being built.
NoAdjRun ==
    /\ xlim = 0
    /\ ylim = 0
    /\ cy = 0
    /\ cx = 0
    /\ adj_list = <<>>

Init ==
    /\ \E a \in EngineArgs : Construct(a[1], a[2], a[3], a[4])
    /\ NoCall
    /\ NoTrieRun
    /\ NoAdjRun

Next ==
    \/ \E file \in WordsFiles : LoadDictionary(file)
    \/ LoadDictionaryIOError
    \/ \E g \in GridInputs(board_size) : Solve(g)
    \/ SolveSeed
    \/ SolvePop
    \/ SolveReturn
    \/ Resume

Spec == Init /\ [][Next]_vars

---------------------------------------------------------------------------
(* Trie taken alone: a fresh Trie() and a sequence of insert calls.        *)
(* inserted is the sequence of the words inserted so far.                  *)

\* Non-empty words over TrieLetters, of at most MaxWordLen letters.
TrieWords == UNION { [1..n -> TrieLetters] : n \in 1..MaxWordLen }

\* No engine is constructed.
NoEngine ==
    /\ xlen = 0
    /\ ylen = 0
    /\ board_size = 0
    /\ min_letters = 0
    /\ max_letters = 0
    /\ adjacency = <<>>

TrieInit ==
    /\ trie = <<NewNode>>
    /\ inserted = <<>>
    /\ NoEngine
    /\ NoCall
    /\ NoAdjRun

TrieInsert(w) ==
    /\ Len(inserted) < MaxInserts
    /\ trie' = insert(trie, w)
    /\ inserted' = Append(inserted, w)
    /\ UNCHANGED <<xlen, ylen, board_size, min_letters, max_letters, adjacency,
                   passed, pc, grid, locals, result, adjvars>>

TrieNext == \E w \in TrieWords : TrieInsert(w)

SpecTrie == TrieInit /\ [][TrieNext]_vars

---------------------------------------------------------------------------
(* _create_adjacency_matrix taken alone: the two loops, one cell a step.   *)
(* (cx, cy) is the cell the next turn of the loops handles; the loops are  *)
(* over, and adj_list is returned, when cy = ylim.                         *)

AdjInit ==
    /\ xlim \in 2..MaxDim
    /\ ylim \in 2..MaxDim
    /\ cy = 0
    /\ cx = 0
    /\ adj_list = [c \in 0..(xlim * ylim - 1) |-> <<>>]
    /\ trie = TrieNone
    /\ NoEngine
    /\ NoCall
    /\ NoTrieRun

AdjCell ==
    /\ cy < ylim
    /\ adj_list' = [adj_list EXCEPT ![cy * xlim + cx] = AdjOf(cx, cy, xlim, ylim)]
    /\ cx' = IF cx + 1 < xlim THEN cx + 1 ELSE 0
    /\ cy' = IF cx + 1 < xlim THEN cy ELSE cy + 1
    /\ UNCHANGED <<engine, passed, pc, grid, locals, result, trievars, xlim, ylim>>

AdjNext == AdjCell

SpecAdj == AdjInit /\ [][AdjNext]_vars

---------------------------------------------------------------------------
(* Properties of the trie taken alone (SpecTrie) *)

\* Every letter sequence of at most n letters over TrieLetters, the empty one
\* included.
SeqsUpTo(n) == UNION { [1..k -> TrieLetters] : k \in 0..n }

\* Walking get_child from the root along s ends at a node with _is_word true.
EndsAtWord(h, s) == Walk(h, s) # None /\ h[Walk(h, s)].is_word

\* C7, first part: after any sequence of insert calls on a fresh Trie, the walk
\* along s ends at a word node iff s is one of the inserted words; any other
\* sequence meets a missing child or ends at a node whose flag is false.
RoundTrip ==
    \A s \in SeqsUpTo(MaxWordLen + 1) : EndsAtWord(trie, s) <=> s \in Range(inserted)

\* C7, second part: an insert call of a word inserted before changes neither
\* a child slot nor a flag.
ReinsertChangesNothing ==
    (/\ inserted' # inserted
     /\ inserted'[Len(inserted')] \in Range(inserted)) => trie' = trie

\* C7: trie membership round trip, and idempotence of insert.
C7_TrieRoundTrip == [](RoundTrip) /\ [][ReinsertChangesNothing]_vars

\* A word was inserted twice, a proper prefix of an inserted word is itself
\* not inserted, and another inserted word ends on an inner node.
C7_Witness ==
    /\ Len(inserted) = 3
    /\ inserted[1] = <<"a", "t">>
    /\ inserted[2] = <<"a", "t">>
    /\ inserted[3] = <<"t">>
    /\ Walk(trie, <<"a">>) # None
    /\ ~EndsAtWord(trie, <<"a">>)
    /\ EndsAtWord(trie, <<"a", "t">>)

---------------------------------------------------------------------------
(* Properties of the adjacency table taken alone (SpecAdj) *)

RowOf(c, xl) == c \div xl
ColOf(c, xl) == c % xl

Abs(n) == IF n < 0 THEN -n ELSE n

\* The cells other than A whose row and column differ from A's by at most 1.
Around(A, xl, yl) ==
    { B \in 0..(xl * yl - 1) :
        /\ B # A
        /\ Abs(RowOf(B, xl) - RowOf(A, xl)) <= 1
        /\ Abs(ColOf(B, xl) - ColOf(A, xl)) <= 1 }

OnRowEdge(c, xl, yl) == RowOf(c, xl) \in {0, yl - 1}
OnColEdge(c, xl, yl) == ColOf(c, xl) \in {0, xl - 1}

\* 3 for a corner, 5 for a non-corner edge cell, 8 for an interior cell.
Degree(c, xl, yl) ==
    IF OnRowEdge(c, xl, yl) /\ OnColEdge(c, xl, yl) THEN 3
    ELSE IF OnRowEdge(c, xl, yl) \/ OnColEdge(c, xl, yl) THEN 5
    ELSE 8

\* C6: for xlen, ylen >= 2 the finished table has one entry per cell, is
\* symmetric, lists 3, 5 or 8 neighbours for a corner, edge or interior cell,
\* and lists for each cell exactly the cells one row and one column away at most.
C6_AdjacencySymmetryDegree ==
    cy = ylim =>
        /\ DOMAIN adj_list = 0..(xlim * ylim - 1)
        /\ \A A, B \in DOMAIN adj_list :
               B \in Range(adj_list[A]) <=> A \in Range(adj_list[B])
        /\ \A A \in DOMAIN adj_list :
               /\ Len(adj_list[A]) = Degree(A, xlim, ylim)
               /\ Range(adj_list[A]) = Around(A, xlim, ylim)

\* A finished table with corner, edge and interior cells, wider than high.
C6_Witness ==
    /\ cy = ylim
    /\ xlim = 4
    /\ ylim = 3
    /\ Len(adj_list[0]) = 3
    /\ Len(adj_list[1]) = 5
    /\ Len(adj_list[5]) = 8

---------------------------------------------------------------------------
(* BoggleSolver.find_substrings *)

\* The inner loop for one start offset: letter i of the string is taken,
\* standing on node cur.  ''.join(letters[:count]) is the string from start to
\* i; the buffer of max_letters slots is never overrun, a node at depth
\* max_letters having no children.
RECURSIVE FindFrom(_, _, _, _, _)
FindFrom(h, string, start, i, cur) ==
    IF i > Len(string)
    THEN {}
    ELSE LET nxt == get_child(h, cur, string[i])
         IN  IF nxt = None
             THEN {}
             ELSE (IF h[nxt].is_word THEN {SubSeq(string, start, i)} ELSE {})
                  \cup (IF ~has_children(h, nxt)
                        THEN {}
                        ELSE FindFrom(h, string, start, i + 1, nxt))

find_substrings(h, string) ==
    UNION { FindFrom(h, string, start, start, root) : start \in 1..Len(string) }

---------------------------------------------------------------------------
(* Properties of the engine (Spec): paths and spellings *)

Cells == 0..(board_size - 1)

\* 8-adjacency from rows and columns.
GridNeighbours == { <<A, B>> \in Cells \X Cells : B \in Around(A, xlen, ylen) }

\* Adjacency as the table of the engine lists it.
TableNeighbours == { <<A, B>> \in Cells \X Cells : B \in Range(adjacency[A]) }

\* The letters of w from the i-th on are spelled by cells that continue a
\* path standing on cell and having visited seen, along the relation nb.
RECURSIVE CanSpell(_, _, _, _, _, _)
CanSpell(w, i, cell, seen, b, nb) ==
    IF i > Len(w)
    THEN TRUE
    ELSE \E n \in Cells \ seen :
             /\ <<cell, n>> \in nb
             /\ BoardAt(b, n) = w[i]
             /\ CanSpell(w, i + 1, n, seen \cup {n}, b, nb)

\* w is spelled by a path of pairwise distinct cells, consecutive ones related
\* by nb, a "q" cell at the start of the path reading as "qu".
Spellable(w, b, nb) ==
    \E c \in Cells :
        IF BoardAt(b, c) = "q"
        THEN /\ Len(w) >= 2
             /\ w[1] = "q"
             /\ w[2] = "u"
             /\ CanSpell(w, 3, c, {c}, b, nb)
        ELSE /\ Len(w) >= 1
             /\ w[1] = BoardAt(b, c)
             /\ CanSpell(w, 2, c, {c}, b, nb)

\* The letters of the cells of a path, in order.
PathLetters(b, path) == [k \in 1..Len(path) |-> BoardAt(b, path[k])]

\* Consecutive cells of the path are neighbours in the table.
TablePath(path) ==
    \A k \in 1..(Len(path) - 1) : path[k + 1] \in Range(adjacency[path[k]])

\* A solve call with a well-formed grid on a loaded engine has ended: it
\* returned its set, or an exception left it.
SolveReturned == pc = "done" /\ result.kind = "set"
SolveEnded == pc = "done" /\ result.kind \in {"set", "AttributeError"}

---------------------------------------------------------------------------
(* C1 *)

\* C1: solve returns a set, and every word that passed the dictionary filter
\* and is spelled by a path of distinct, consecutively 8-adjacent cells (a
\* leading "q" cell reading as "qu") is in it.
C1_Completeness ==
    SolveEnded =>
        /\ result.kind = "set"
        /\ \A w \in passed : Spellable(w, board, GridNeighbours) => w \in result.val

---------------------------------------------------------------------------
(* C2 *)

\* What C2 says of one work-queue entry.
EntryWellFormed(e) ==
    /\ NoRepeats(e.seen)
    /\ e.seen # <<>>
    /\ e.sq = e.seen[Len(e.seen)]
    /\ TablePath(e.seen)
    /\ e.prefix = PathLetters(board, e.seen)
    /\ e.node = Walk(trie, e.prefix)

\* C2: every word found so far (and so every word of the returned set) passed
\* the dictionary filter and is spelled by a path without a repeated cell whose
\* consecutive cells are neighbours in the adjacency table; every entry on the
\* work queue has seen free of repeats, cell = last of seen, prefix = the board
\* letters of seen, node = the trie node reached from the root by prefix.
C2_SoundnessNoRevisit ==
    /\ \A i \in 1..Len(q) : EntryWellFormed(q[i])
    /\ \A w \in words \cup result.val :
           w \in passed /\ Spellable(w, board, TableNeighbours)
    /\ \A e \in emits :
           NoRepeats(e[1]) /\ TablePath(e[1])
           /\ e[2] = FoundWord(PathLetters(board, e[1]))

\* A set was returned that holds a word found along a path of three cells whose
\* ends are not neighbours.
C2_Witness ==
    /\ SolveReturned
    /\ xlen = 3
    /\ \E e \in emits :
           /\ Len(e[1]) = 3
           /\ e[2] \in result.val
           /\ <<e[1][1], e[1][3]>> \notin TableNeighbours

---------------------------------------------------------------------------
(* C3 *)

\* C3: every string found, and every string of the returned set, is of length
\* min_letters..max_letters, the restored "u" counted.
C3_LengthBound ==
    \A w \in words \cup result.val : min_letters <= Len(w) /\ Len(w) <= max_letters

\* A returned set holds a q-word of exactly max_letters letters, found along a
\* path of max_letters - 1 cells.
C3_Witness ==
    /\ SolveReturned
    /\ \E e \in emits :
           /\ e[2] \in result.val
           /\ e[2][1] = "q"
           /\ Len(e[2]) = max_letters
           /\ Len(e[1]) = max_letters - 1

---------------------------------------------------------------------------
(* C4 *)

\* The while loop run to its end from queue qu with the words ws found so
\* far, the entry popped from the back (lifo) or from the front.
RECURSIVE RunQueue(_, _, _)
RunQueue(qu, ws, lifo) ==
    IF qu = <<>>
    THEN [raised |-> FALSE, words |-> ws]
    ELSE LET e == IF lifo THEN qu[Len(qu)] ELSE qu[1]
             rest == IF lifo THEN SubSeq(qu, 1, Len(qu) - 1) ELSE SubSeq(qu, 2, Len(qu))
         IN  IF e.node = None
             THEN [raised |-> TRUE, words |-> ws]
             ELSE LET es == Expand(trie, board, adjacency, e)
                  IN  RunQueue(rest \o es,
                               ws \cup { FoundWord(x.prefix) : x \in WordEntries(trie, es) },
                               lifo)

\* The search run from the start cell i alone.
FromStart(i, lifo) == RunQueue(<<SeedEntry(trie, board, i)>>, {}, lifo)

\* The for loop from start cell i on.
RECURSIVE SolveFrom(_, _, _)
SolveFrom(i, ws, lifo) ==
    IF i = board_size
    THEN [raised |-> FALSE, words |-> ws]
    ELSE LET r == RunQueue(<<SeedEntry(trie, board, i)>>, ws, lifo)
         IN  IF r.raised THEN r ELSE SolveFrom(i + 1, r.words, lifo)

\* C4: the call ends the same way (a set, or the exception) with the queue
\* taken last-in-first-out as with q.pop(0); a returned set is the set found
\* last-in-first-out, and is the union over the start cells of the words found
\* from each start cell alone.  Both are functions of trie, adjacency and grid.
C4_OrderIndependence ==
    SolveEnded =>
        LET lifo == SolveFrom(0, {}, TRUE)
        IN  /\ (result.kind = "set") <=> ~lifo.raised
            /\ result.kind = "set" =>
                   /\ result.val = lifo.words
                   /\ result.val = UNION { FromStart(i, TRUE).words : i \in Cells }
                   /\ result.val = UNION { FromStart(i, FALSE).words : i \in Cells }

\* A set of two words was returned, found from different start cells, after a
\* search in which the queue held more than one entry.
C4_Witness ==
    /\ SolveReturned
    /\ Cardinality(result.val) >= 2
    /\ \E e, f \in emits : e[1][1] # f[1][1] /\ e[2] # f[2] /\ Len(f[1]) >= 3

---------------------------------------------------------------------------
(* C5 *)

\* A solve call is made (grid' is its argument) before a dictionary is loaded
\* or with a grid of the wrong length.
FailedSolveCall ==
    /\ pc = "idle"
    /\ pc' # "idle"
    /\ grid' # NoGrid
    /\ (trie = TrieNone \/ Len(grid') # board_size)

\* C5: a solve call made before a dictionary is loaded, or with a grid whose
\* length is not board_size, returns None at once and leaves trie, adjacency,
\* board_size, min_letters and max_letters (and the dimensions) as they were;
\* the caller goes on with the engine as it was before the call.
C5_FailedSolveChangesNothing ==
    [][ /\ FailedSolveCall =>
            /\ pc' = "done"
            /\ result' = Ret("None", {})
            /\ UNCHANGED <<engine, passed>>
        /\ (pc = "done" /\ result.kind = "None" /\ pc' = "idle") => UNCHANGED engine
      ]_vars

\* None was returned for a grid one cell short, on a loaded engine.
C5_Witness ==
    /\ pc = "done"
    /\ result = Ret("None", {})
    /\ trie # TrieNone
    /\ passed # {}
    /\ Len(grid) = board_size - 1

---------------------------------------------------------------------------
(* C8 *)

\* The paths of k pairwise distinct cells, consecutive ones 8-adjacent.
RECURSIVE PathsOfLen(_)
PathsOfLen(k) ==
    IF k = 1
    THEN { <<c>> : c \in Cells }
    ELSE { Append(path, c) : <<path, c>> \in
             { pc2 \in PathsOfLen(k - 1) \X Cells :
                 /\ pc2[2] \notin Range(pc2[1])
                 /\ <<pc2[1][Len(pc2[1])], pc2[2]>> \in GridNeighbours } }

SimplePaths == UNION { PathsOfLen(k) : k \in 1..board_size }

\* The prefixes of the string that find_substrings reports.
ReportedPrefixes(string) ==
    { w \in find_substrings(trie, string) : IsPrefix(w, string) }

\* The words solve added for the prefixes of the path.
EmittedAlong(path) == { e[2] : e \in { f \in emits : IsPrefix(f[1], path) } }

\* C8: for every simple adjacent path of the grid, the prefixes of its letter
\* string that find_substrings reports are exactly the words solve emits for
\* the prefixes of that path.
C8_SubstringCrossCheck ==
    SolveEnded =>
        \A path \in SimplePaths :
            ReportedPrefixes(PathLetters(board, path)) = EmittedAlong(path)

---------------------------------------------------------------------------
(* C9 *)

\* C9: a start cell whose letter has no child under the root is skipped: no
\* entry without a node is put on the queue, and no exception leaves solve.
C9_RootPrune ==
    /\ \A i \in 1..Len(q) : q[i].node # None
    /\ result.kind # "AttributeError"

---------------------------------------------------------------------------
(* C10 *)

\* The letter paths from node n (reached by prefix) to the word nodes below
\* it, n included.
RECURSIVE WordPaths(_, _, _)
WordPaths(h, n, prefix) ==
    (IF h[n].is_word THEN {prefix} ELSE {})
    \cup UNION { WordPaths(h, h[n].children[l], Append(prefix, l)) :
                 l \in { l2 \in Letters : h[n].children[l2] # None } }

Terminals == IF trie = TrieNone THEN {} ELSE WordPaths(trie, root, <<>>)

\* C10 as claimed: every word node lies at a depth d, min_letters <= d <=
\* max_letters.
C10_TerminalDepth ==
    \A s \in Terminals : min_letters <= Len(s) /\ Len(s) <= max_letters

\* The depth, with the "u" that _create_dict_trie removed from a q-word counted.
SpelledLen(s) == IF s # <<>> /\ s[1] = "q" THEN Len(s) + 1 ELSE Len(s)

\* C10 as amended: every word node lies at a depth d with min_letters <= d'
\* <= max_letters, where d' = d + 1 when the path from the root begins with
\* "q" (the "qu" stored as one letter) and d' = d otherwise.
C10_TerminalDepthQu ==
    \A s \in Terminals : min_letters <= SpelledLen(s) /\ SpelledLen(s) <= max_letters

\* A dictionary built with min_letters = 3 whose word node for "qua" lies at
\* depth 2, beside a word node at depth 3.
C10_Witness ==
    /\ min_letters = 3
    /\ <<"q", "a">> \in Terminals
    /\ <<"t", "a", "t">> \in Terminals

=============================================================================
